---- MODULE Spec2Model ----
(***************************************************************************)
(* Model of the nRF watchdog timer driver, embassy-nrf/src/wdt.rs.         *)
(*                                                                         *)
(* The state is the WDT peripheral's register file (CONFIG, CRV, RREN,     *)
(* INTEN, REQSTATUS, RUNSTATUS and the timeout event, which no function of *)
(* the driver accesses) together with the values the program holds         *)
(* (the Watchdog, the WatchdogHandles) and the value returned by the last  *)
(* driver call.  Every driver function is one action; the peripheral's own *)
(* behaviour (a window elapsing, the reset that follows a timeout) is the  *)
(* environment.  A panic of try_new is recorded as its outcome; the        *)
(* registers are as the panicking call left them.                          *)
(***************************************************************************)
EXTENDS Integers, Sequences, FiniteSets, TLC

VARIABLES
    config,      \* CONFIG register: [sleep, halt]
    crv,         \* CRV register: reload value in 32768 Hz ticks
    rren,        \* RREN register: bit i set = reload request register i enabled
    inten,       \* INTEN.TIMEOUT: timeout interrupt enabled
    reqstatus,   \* REQSTATUS register: bit i set = RR[i] awaiting a reload
    runstatus,   \* RUNSTATUS register: TRUE = watchdog running
    watchdog,    \* the program holds a Watchdog value
    handles,     \* indices of the WatchdogHandle values the program holds
    timeout,     \* EVENTS_TIMEOUT: a window has lapsed, the reset is on its way
    ret          \* the last operation and the value it returned

hw == <<config, crv, rren, inten, reqstatus, runstatus>>
vars == <<config, crv, rren, inten, reqstatus, runstatus, watchdog, handles, timeout, ret>>

(***************************************************************************)
(* Program constants and the bounds of the model.                          *)
(***************************************************************************)
MIN_TICKS == 15
MaxHandles == 8

\* const generic N of try_new ranges over 0..MaxN
MaxN == 9
\* WatchdogHandle::steal is called with an index in 0..MaxStealIndex
MaxStealIndex == 1
\* where the timeout event is a step of its own, N ranges over 0..MaxLapseN
MaxLapseN == 4

Actions == {"RUN", "PAUSE"}
Ticks == {10, 32768}
Configs == [timeout_ticks : Ticks, action_during_sleep : Actions, action_during_debug_halt : Actions]

(***************************************************************************)
(* Register arithmetic on naturals.                                        *)
(***************************************************************************)
Max(a, b) == IF a >= b THEN a ELSE b

Bit(x, i) == (x \div (2 ^ i)) % 2 = 1

RECURSIVE BitAnd(_, _)
BitAnd(x, y) ==
    IF x = 0 \/ y = 0 THEN 0
    ELSE (x % 2) * (y % 2) + 2 * BitAnd(x \div 2, y \div 2)

BitOr(x, y) == x + y - BitAnd(x, y)

ClearBit(x, i) == IF Bit(x, i) THEN x - 2 ^ i ELSE x

\* a mask of the single bit N: the subtraction left out
RrenMask_one_bit(N) == 2 ^ N

\* Rren((1u32 << N) - 1)
RrenMask(N) == (2 ^ N) - 1

(***************************************************************************)
(* The peripheral, as the driver sees it through its registers.            *)
(***************************************************************************)
\* A window begins: every enabled reload request register awaits a reload.
WindowBegin(status, enabled) == BitOr(status, enabled)

\* r.rr(index).write(|w| w.set_rr(vals::Rr::RELOAD)): the request of RR[index]
\* is satisfied for the current window.
rr_write(status, index) == ClearBit(status, index)

\* r.reqstatus().read().rr(index)
rr_read(status, index) == Bit(status, index)

(***************************************************************************)
(* Pure parts of the driver.                                               *)
(***************************************************************************)
\* an upper limit that is off by one
ValidN_upto9(N) == N >= 1 /\ N <= MaxHandles + 1

\* assert!(N >= 1 && N <= 8)
ValidN(N) == N >= 1 /\ N <= MaxHandles

\* the requested value used as it is
ClampTicks_none(timeout_ticks) == timeout_ticks

\* let crv = config.timeout_ticks.max(MIN_TICKS)
ClampTicks(timeout_ticks) == Max(timeout_ticks, MIN_TICKS)

\* a comparison that forgets the enabled mask
Mismatch_no_rren(c, N) ==
    \/ config.halt # c.action_during_debug_halt
    \/ config.sleep # c.action_during_sleep
    \/ crv # Max(c.timeout_ticks, MIN_TICKS)

\* a comparison that also wants the timeout interrupt as the arm path sets it
Mismatch_with_inten(c, N) ==
    \/ config.halt # c.action_during_debug_halt
    \/ config.sleep # c.action_during_sleep
    \/ crv # Max(c.timeout_ticks, MIN_TICKS)
    \/ rren # (2 ^ N) - 1
    \/ ~inten

\* the condition under which try_new returns Err(wdt) on a running watchdog
Mismatch(c, N) ==
    \/ config.halt # c.action_during_debug_halt
    \/ config.sleep # c.action_during_sleep
    \/ crv # ClampTicks(c.timeout_ticks)
    \/ rren # RrenMask(N)

\* the handles array built by try_new: handles[i].index = i
MintHandles(N) == [k \in 1..N |-> k - 1]

\* a loop that starts at the second handle: for i in 1..N
RECURSIVE PetAll_from_one(_, _)
PetAll_from_one(status, N) ==
    IF N <= 1 THEN status
    ELSE rr_write(PetAll_from_one(status, N - 1), N - 1)

\* for i in 0..N { handles[i].pet() }
RECURSIVE PetAll(_, _)
PetAll(status, N) ==
    IF N = 0 THEN status
    ELSE rr_write(PetAll(status, N - 1), N - 1)

\* a read-back of the timeout alone, the actions left at their defaults
ConfigRead_default_actions ==
    IF runstatus
    THEN [tag |-> "Some",
          config |-> [timeout_ticks |-> crv,
                      action_during_sleep |-> "RUN",
                      action_during_debug_halt |-> "RUN"]]
    ELSE [tag |-> "None"]

\* a read-back that takes each action from the other field
ConfigRead_swapped ==
    IF runstatus
    THEN [tag |-> "Some",
          config |-> [timeout_ticks |-> crv,
                      action_during_sleep |-> config.halt,
                      action_during_debug_halt |-> config.sleep]]
    ELSE [tag |-> "None"]

\* Config::try_new: Some(live configuration) when running, None otherwise
ConfigRead ==
    IF runstatus
    THEN [tag |-> "Some",
          config |-> [timeout_ticks |-> crv,
                      action_during_sleep |-> config.sleep,
                      action_during_debug_halt |-> config.halt]]
    ELSE [tag |-> "None"]

\* Watchdog::awaiting_pets: (status & enabled) == 0
AwaitingPets == BitAnd(reqstatus, rren) = 0

\* the raw status bit, without the negation
IsPet_raw(index) == rr_read(reqstatus, index)

\* WatchdogHandle::is_pet: !reqstatus.rr(index)
IsPet(index) == ~rr_read(reqstatus, index)

(***************************************************************************)
(* Initial state: the device comes out of reset with the watchdog          *)
(* stopped, CONFIG = 1 (run during sleep, pause during debug halt),        *)
(* RREN = 1, REQSTATUS = 1 and the interrupt disabled.  The driver reads   *)
(* no register of a stopped watchdog but RUNSTATUS.                        *)
(***************************************************************************)
ResetState ==
    /\ runstatus = FALSE
    /\ inten = FALSE
    /\ config = [sleep |-> "RUN", halt |-> "PAUSE"]
    /\ crv = 0
    /\ rren = 1
    /\ reqstatus = 1

Init ==
    /\ ResetState
    /\ watchdog = FALSE
    /\ handles = {}
    /\ timeout = FALSE
    /\ ret = [op |-> "init"]

(***************************************************************************)
(* Config::try_new(&WDT) -> Option<Config>                                 *)
(***************************************************************************)
Config_try_new ==
    /\ ret' = [op |-> "Config::try_new"] @@ ConfigRead
    /\ UNCHANGED <<hw, watchdog, handles, timeout>>

(***************************************************************************)
(* Watchdog::try_new::<N>(wdt, config)                                     *)
(*   -> Result<(Watchdog, [WatchdogHandle; N]), Peri<WDT>>                 *)
(*                                                                         *)
(* TryNew(N, c) is the outcome of the call in the current state: st, the   *)
(* registers and the program's values after it, and ret, what it returns.  *)
(* ret.handles is the returned array (its indices, in order), ret.peri the *)
(* returned capability; ret.path names the branch of `if runstatus` taken. *)
(***************************************************************************)
Cur ==
    [config |-> config, crv |-> crv, rren |-> rren, inten |-> inten,
     reqstatus |-> reqstatus, runstatus |-> runstatus,
     watchdog |-> watchdog, handles |-> handles]

\* one register access of the driver on the peripheral in state st; TASKS_START
\* starts the watchdog with the mask then in RREN, and the first window begins
RegWrite(st, w) ==
    CASE w.reg = "CONFIG" -> [st EXCEPT !.config = w.val]
      [] w.reg = "INTENSET" -> [st EXCEPT !.inten = TRUE]
      [] w.reg = "CRV" -> [st EXCEPT !.crv = w.val]
      [] w.reg = "RREN" -> [st EXCEPT !.rren = w.val]
      [] w.reg = "TASKS_START" ->
             [st EXCEPT !.runstatus = TRUE,
                        !.reqstatus = WindowBegin(st.reqstatus, st.rren)]

RECURSIVE ApplyWrites(_, _)
ApplyWrites(st, ws) ==
    IF ws = <<>> THEN st
    ELSE ApplyWrites(RegWrite(st, Head(ws)), Tail(ws))

\* an arm path that triggers the start before it configures
ArmSequence_start_first(N, c) ==
    << [reg |-> "TASKS_START"],
       [reg |-> "CONFIG", val |-> [sleep |-> c.action_during_sleep,
                                   halt |-> c.action_during_debug_halt]],
       [reg |-> "INTENSET"],
       [reg |-> "CRV", val |-> ClampTicks(c.timeout_ticks)],
       [reg |-> "RREN", val |-> RrenMask(N)] >>

\* the else branch, in program order: write CONFIG, INTENSET, CRV, RREN, then
\* trigger TASKS_START
ArmSequence(N, c) ==
    << [reg |-> "CONFIG", val |-> [sleep |-> c.action_during_sleep,
                                   halt |-> c.action_during_debug_halt]],
       [reg |-> "INTENSET"],
       [reg |-> "CRV", val |-> ClampTicks(c.timeout_ticks)],
       [reg |-> "RREN", val |-> RrenMask(N)],
       [reg |-> "TASKS_START"] >>

ArmWrites(st, N, c) == ApplyWrites(st, ArmSequence(N, c))

\* the interrupt enabled on both branches instead of the else branch alone
MintAndPet_intenset(st, N) ==
    [st EXCEPT
        !.inten = TRUE,
        !.reqstatus = PetAll(st.reqstatus, N),
        !.watchdog = TRUE,
        !.handles = st.handles \cup {MintHandles(N)[k] : k \in 1..N}]

\* let this = Self { _wdt: wdt }; build the N handles and pet each one
MintAndPet(st, N) ==
    [st EXCEPT
        !.reqstatus = PetAll(st.reqstatus, N),
        !.watchdog = TRUE,
        !.handles = st.handles \cup {MintHandles(N)[k] : k \in 1..N}]

TryNew(N, c) ==
    IF ~ValidN(N)
    THEN \* assert!(N >= 1 && N <= 8) fails: panic before any register access
         [st |-> Cur, ret |-> [op |-> "try_new", tag |-> "Panic"]]
    ELSE IF runstatus
    THEN IF Mismatch(c, N)
         THEN [st |-> Cur, ret |-> [op |-> "try_new", tag |-> "Err", peri |-> "WDT"]]
         ELSE [st |-> MintAndPet(Cur, N),
               ret |-> [op |-> "try_new", tag |-> "Ok",
                        handles |-> MintHandles(N), path |-> "attach"]]
    ELSE [st |-> MintAndPet(ArmWrites(Cur, N, c), N),
          ret |-> [op |-> "try_new", tag |-> "Ok",
                   handles |-> MintHandles(N), path |-> "arm"]]

try_new(N, c) ==
    \E out \in {TryNew(N, c)} :
    /\ config' = out.st.config
    /\ crv' = out.st.crv
    /\ rren' = out.st.rren
    /\ inten' = out.st.inten
    /\ reqstatus' = out.st.reqstatus
    /\ runstatus' = out.st.runstatus
    /\ watchdog' = out.st.watchdog
    /\ handles' = out.st.handles
    /\ ret' = out.ret
    /\ UNCHANGED timeout

(***************************************************************************)
(* Watchdog::enable_interrupt, disable_interrupt, awaiting_pets            *)
(***************************************************************************)
\* an enable_interrupt that writes INTENCLR, the register of disable_interrupt
enable_interrupt_intenclr ==
    /\ watchdog
    /\ inten' = FALSE
    /\ ret' = [op |-> "enable_interrupt"]
    /\ UNCHANGED <<config, crv, rren, reqstatus, runstatus, watchdog, handles, timeout>>

\* intenset().write(|w| w.set_timeout(true))
enable_interrupt ==
    /\ watchdog
    /\ inten' = TRUE
    /\ ret' = [op |-> "enable_interrupt"]
    /\ UNCHANGED <<config, crv, rren, reqstatus, runstatus, watchdog, handles, timeout>>

\* a disable_interrupt that stops the watchdog instead of masking its interrupt
disable_interrupt_stops ==
    /\ watchdog
    /\ runstatus' = FALSE
    /\ ret' = [op |-> "disable_interrupt"]
    /\ UNCHANGED <<config, crv, rren, inten, reqstatus, watchdog, handles, timeout>>

\* intenclr().write(|w| w.set_timeout(true))
disable_interrupt ==
    /\ watchdog
    /\ inten' = FALSE
    /\ ret' = [op |-> "disable_interrupt"]
    /\ UNCHANGED <<config, crv, rren, reqstatus, runstatus, watchdog, handles, timeout>>

awaiting_pets ==
    /\ watchdog
    /\ ret' = [op |-> "awaiting_pets", val |-> AwaitingPets]
    /\ UNCHANGED <<hw, watchdog, handles, timeout>>

(***************************************************************************)
(* WatchdogHandle::pet, is_pet, steal                                      *)
(***************************************************************************)
\* a pet that writes the first reload request register whatever its index
pet_first(index) ==
    /\ index \in handles
    /\ reqstatus' = rr_write(reqstatus, 0)
    /\ ret' = [op |-> "pet"]
    /\ UNCHANGED <<config, crv, rren, inten, runstatus, watchdog, handles, timeout>>

\* a pet that reloads every request register up to its own
pet_up_to(index) ==
    /\ index \in handles
    /\ reqstatus' = PetAll(reqstatus, index + 1)
    /\ ret' = [op |-> "pet"]
    /\ UNCHANGED <<config, crv, rren, inten, runstatus, watchdog, handles, timeout>>

\* a pet that flips the request's pending bit instead of clearing it
pet_toggle(index) ==
    /\ index \in handles
    /\ reqstatus' = IF Bit(reqstatus, index) THEN reqstatus - 2 ^ index
                                             ELSE reqstatus + 2 ^ index
    /\ ret' = [op |-> "pet"]
    /\ UNCHANGED <<config, crv, rren, inten, runstatus, watchdog, handles, timeout>>

\* a pet that also clears EVENTS_TIMEOUT, as an interrupt handler would
pet_clears_event(index) ==
    /\ index \in handles
    /\ reqstatus' = rr_write(reqstatus, index)
    /\ timeout' = FALSE
    /\ ret' = [op |-> "pet"]
    /\ UNCHANGED <<config, crv, rren, inten, runstatus, watchdog, handles>>

pet(index) ==
    /\ index \in handles
    /\ reqstatus' = rr_write(reqstatus, index)
    /\ ret' = [op |-> "pet"]
    /\ UNCHANGED <<config, crv, rren, inten, runstatus, watchdog, handles, timeout>>

is_pet(index) ==
    /\ index \in handles
    /\ ret' = [op |-> "is_pet", val |-> IsPet(index)]
    /\ UNCHANGED <<hw, watchdog, handles, timeout>>

\* a steal that pets the handle it builds, as try_new does
steal_pets(index) ==
    /\ handles' = handles \cup {index}
    /\ reqstatus' = rr_write(reqstatus, index)
    /\ ret' = [op |-> "steal", index |-> index]
    /\ UNCHANGED <<config, crv, rren, inten, runstatus, watchdog, timeout>>

\* unsafe: builds a handle from the index, touching nothing
steal(index) ==
    /\ handles' = handles \cup {index}
    /\ ret' = [op |-> "steal", index |-> index]
    /\ UNCHANGED <<hw, watchdog, timeout>>

(***************************************************************************)
(* The peripheral's own steps.                                             *)
(***************************************************************************)
\* The window ends with every enabled request satisfied: the next one begins.
WindowReload ==
    /\ runstatus /\ ~timeout
    /\ BitAnd(reqstatus, rren) = 0
    /\ reqstatus' = WindowBegin(reqstatus, rren)
    /\ ret' = [op |-> "window"]
    /\ UNCHANGED <<config, crv, rren, inten, runstatus, watchdog, handles, timeout>>

\* The device resets: every register returns to its reset value and the
\* program restarts with no value of the driver in hand.
DeviceReset ==
    /\ runstatus' = FALSE
    /\ inten' = FALSE
    /\ config' = [sleep |-> "RUN", halt |-> "PAUSE"]
    /\ crv' = 0
    /\ rren' = 1
    /\ reqstatus' = 1
    /\ timeout' = FALSE
    /\ watchdog' = FALSE
    /\ handles' = {}
    /\ ret' = [op |-> "reset"]

\* The window ends with a request outstanding: the timeout event fires and the
\* device resets two ticks later; the program restarts from the reset state.
WindowLapse ==
    /\ runstatus /\ ~timeout
    /\ BitAnd(reqstatus, rren) # 0
    /\ DeviceReset

\* every function of the driver, called with every argument of the model;
\* the const generic N of try_new ranges over 0..maxN
DriverStep(maxN) ==
    \/ Config_try_new
    \/ \E N \in 0..maxN, c \in Configs : try_new(N, c)
    \/ enable_interrupt
    \/ disable_interrupt
    \/ awaiting_pets
    \/ \E index \in 0..(MaxHandles - 1) : pet(index)
    \/ \E index \in 0..(MaxHandles - 1) : is_pet(index)
    \/ \E index \in 0..MaxStealIndex : steal(index)

Next ==
    \/ DriverStep(MaxN)
    \/ WindowReload
    \/ WindowLapse

Spec == Init /\ [][Next]_vars

(***************************************************************************)
(* The same system with the two ticks between the timeout event and the    *)
(* reset made visible: the program runs on after the event (the interrupt  *)
(* handler, if the interrupt is enabled, or whatever it was doing), and    *)
(* the peripheral resets the device on its own clock, which no program     *)
(* step can hold back: weak fairness of the reset.                         *)
(***************************************************************************)
\* The window ends with a request outstanding: the timeout event fires.
TimeoutEvent ==
    /\ runstatus /\ ~timeout
    /\ BitAnd(reqstatus, rren) # 0
    /\ timeout' = TRUE
    /\ ret' = [op |-> "timeout", irq |-> inten]
    /\ UNCHANGED <<config, crv, rren, inten, reqstatus, runstatus, watchdog, handles>>

\* Two ticks after the event the device resets.
TimeoutReset == timeout /\ DeviceReset

NextLapse ==
    \/ DriverStep(MaxLapseN)
    \/ WindowReload
    \/ TimeoutEvent
    \/ TimeoutReset

SpecLapse == Init /\ [][NextLapse]_vars /\ WF_vars(TimeoutReset)

(***************************************************************************)
(* Properties.                                                             *)
(***************************************************************************)
\* what the caller asks for, as the driver's documentation states it
RequestedCrv(c) == IF c.timeout_ticks < 15 THEN 15 ELSE c.timeout_ticks
RequestedMask(N) == 2 ^ N - 1
Requested(N, c) ==
    <<c.action_during_debug_halt, c.action_during_sleep, RequestedCrv(c), RequestedMask(N)>>
Recorded == <<config.halt, config.sleep, crv, rren>>
\* the indices of the bits set in a register
BitsOf(x) == {i \in 0..(MaxHandles - 1) : (x \div 2 ^ i) % 2 = 1}
\* an outcome that leaves every register, resp. every value of the program, as it is
SameRegisters(st) ==
    <<st.config, st.crv, st.rren, st.inten, st.reqstatus, st.runstatus>> = hw
SameProgram(st) == st.watchdog = watchdog /\ st.handles = handles

\* C1: once the watchdog runs it keeps running: no driver operation (try_new
\* succeeding or failing, enable_interrupt, disable_interrupt, awaiting_pets,
\* pet, is_pet, steal, Config::try_new) nor a window reload clears the run
\* status; only the device reset does.
C1_ArmedStaysArmed ==
    [][(runstatus /\ ret'.op # "reset") => runstatus']_vars

\* a failed try_new has acted on a running watchdog, which still runs
C1_Witness ==
    runstatus /\ ret.op = "try_new" /\ ret.tag = "Err"

\* C2: try_new on a running watchdog whose recorded (halt, sleep, crv, mask)
\* differs from the requested (halt, sleep, max(timeout, 15), (1<<N)-1) in any
\* component, the handle count included, returns Err with the capability and
\* changes no register.
C2_MismatchFails ==
    \A N \in 1..MaxHandles, c \in Configs :
        (runstatus /\ Requested(N, c) # Recorded)
            => LET out == TryNew(N, c) IN
               /\ out.ret = [op |-> "try_new", tag |-> "Err", peri |-> "WDT"]
               /\ SameRegisters(out.st)

\* try_new has failed on a running watchdog that enables more than one handle
C2_Witness ==
    /\ runstatus
    /\ ret = [op |-> "try_new", tag |-> "Err", peri |-> "WDT"]
    /\ rren # 1

\* C3 as stated: an attach (try_new on a running watchdog with the recorded
\* tuple) succeeds with N handles and leaves every register as it was, the
\* pending-status bits included.
C3_AttachNoMutation ==
    \A N \in 1..MaxHandles, c \in Configs :
        (runstatus /\ Requested(N, c) = Recorded)
            => LET out == TryNew(N, c) IN
               /\ out.ret.tag = "Ok"
               /\ Len(out.ret.handles) = N
               /\ SameRegisters(out.st)

\* C3 amended: an attach succeeds with N handles and writes none of CONFIG, CRV,
\* RREN, INTEN, nor changes the run status; each new handle is pet, so the
\* pending bits 0..N-1 are clear afterwards and no other pending bit changes.
C3_AttachWritesNoConfig ==
    \A N \in 1..MaxHandles, c \in Configs :
        (runstatus /\ Requested(N, c) = Recorded)
            => LET out == TryNew(N, c) IN
               /\ out.ret.tag = "Ok"
               /\ Len(out.ret.handles) = N
               /\ <<out.st.config, out.st.crv, out.st.rren, out.st.inten, out.st.runstatus>>
                      = <<config, crv, rren, inten, runstatus>>
               /\ BitsOf(out.st.reqstatus) = BitsOf(reqstatus) \ (0..(N - 1))

\* an attach has acted while the timeout interrupt was disabled
C3_Witness ==
    ret.op = "try_new" /\ ret.tag = "Ok" /\ ret.path = "attach" /\ ~inten

\* C4: awaiting_pets() returns true exactly when some enabled index has its
\* pending bit set.
C4_AwaitingIffPending ==
    ret.op = "awaiting_pets"
        => (ret.val <=> (BitsOf(reqstatus) \cap BitsOf(rren) # {}))

\* C5: a successful try_new::<N>, arming or attaching, returns exactly N handles
\* with indices 0, 1, ..., N-1 in order, and each of them is pet on return: its
\* pending bit is clear.
C5_HandlesMintedAndPet ==
    \A N \in 0..MaxN, c \in Configs :
        LET out == TryNew(N, c) IN
        out.ret.tag = "Ok"
            => /\ N \in 1..MaxHandles
               /\ Len(out.ret.handles) = N
               /\ \A k \in 1..N : out.ret.handles[k] = k - 1
               /\ \A i \in 0..(N - 1) : i \notin BitsOf(out.st.reqstatus)

\* try_new has returned the largest handle array
C5_Witness ==
    /\ ret.op = "try_new" /\ ret.tag = "Ok"
    /\ ret.handles = <<0, 1, 2, 3, 4, 5, 6, 7>>
    /\ BitsOf(reqstatus) = {}

\* C6: the timeout is clamped to 15 ticks from below before it is written to
\* CRV (arm path) or compared with CRV (running watchdog): arming writes
\* max(timeout, 15), and a request that differs from the recorded tuple at most
\* by a timeout below 15 against a CRV of 15 attaches.
C6_ClampTo15 ==
    \A N \in 1..MaxHandles, c \in Configs :
        /\ ~runstatus => TryNew(N, c).st.crv = RequestedCrv(c)
        /\ (runstatus /\ Requested(N, c) = Recorded) => TryNew(N, c).ret.tag = "Ok"

\* an attach has acted on a watchdog whose CRV is 15, the clamped value of the
\* only requested timeout below 32768
C6_Witness ==
    /\ ret.op = "try_new" /\ ret.tag = "Ok" /\ ret.path = "attach"
    /\ crv = 15
    /\ 15 \notin Ticks

\* C7: pet() on the handle with index i clears bit i of the pending status and
\* changes no other pending bit, nor RREN, CRV, CONFIG, INTEN or the run status.
C7_PetClearsOwnBit ==
    [][ret'.op = "pet" =>
          \A i \in 0..(MaxHandles - 1) :
              pet(i) => /\ BitsOf(reqstatus') = BitsOf(reqstatus) \ {i}
                        /\ UNCHANGED <<config, crv, rren, inten, runstatus>>]_vars

\* a pet has acted and another enabled index is still pending
C7_Witness ==
    ret.op = "pet" /\ runstatus /\ BitsOf(reqstatus) # {} /\ BitsOf(reqstatus) # BitsOf(rren)

\* C8: is_pet() on the handle with index i returns the negation of bit i of the
\* pending status and changes nothing.
C8_IsPetNegatesBit ==
    [][ret'.op = "is_pet" =>
          /\ UNCHANGED <<hw, watchdog, handles, timeout>>
          /\ \A i \in 0..(MaxHandles - 1) :
                 is_pet(i) => (ret'.val <=> i \notin BitsOf(reqstatus))]_vars

\* is_pet has returned false for a pending handle
C8_Witness ==
    ret.op = "is_pet" /\ ret.val = FALSE /\ runstatus

\* C9: try_new with N outside 1..=8 panics on its first statement: nothing is
\* returned, no register changes (a stopped watchdog stays stopped) and no
\* handle is produced.
C9_BadCountPanics ==
    \A N \in (0..MaxN) \ (1..8), c \in Configs :
        LET out == TryNew(N, c) IN
        /\ out.ret = [op |-> "try_new", tag |-> "Panic"]
        /\ SameRegisters(out.st)
        /\ SameProgram(out.st)

\* try_new has panicked on a stopped watchdog, which is still stopped
C9_Witness ==
    ret.op = "try_new" /\ ret.tag = "Panic" /\ ~runstatus

\* C10: Config::try_new returns None exactly when the watchdog is stopped and
\* otherwise Some of the recorded (CRV, sleep action, halt action); it changes
\* no register, so it never starts the watchdog.
C10_ConfigReadIsQuery ==
    [][ret'.op = "Config::try_new" =>
          /\ UNCHANGED <<hw, watchdog, handles, timeout>>
          /\ (ret'.tag = "None") <=> ~runstatus
          /\ runstatus =>
                 /\ ret'.tag = "Some"
                 /\ ret'.config = [timeout_ticks |-> crv,
                                   action_during_sleep |-> config.sleep,
                                   action_during_debug_halt |-> config.halt]]_vars

\* Config::try_new has read back a configuration whose two actions differ
C10_Witness ==
    /\ ret.op = "Config::try_new" /\ ret.tag = "Some"
    /\ ret.config.action_during_sleep # ret.config.action_during_debug_halt

\* C11: enable_interrupt() leaves the timeout interrupt enabled and
\* disable_interrupt() leaves it disabled, whatever it was before; neither
\* changes the run status, CRV, CONFIG, RREN or the pending status, so a running
\* watchdog still runs after disable_interrupt().
C11_InterruptBitOnly ==
    [][(ret'.op = "enable_interrupt" \/ ret'.op = "disable_interrupt") =>
          /\ inten' = (ret'.op = "enable_interrupt")
          /\ UNCHANGED <<config, crv, rren, reqstatus, runstatus>>]_vars

\* disable_interrupt has acted on a running watchdog with a request pending
C11_Witness ==
    /\ ret.op = "disable_interrupt"
    /\ runstatus /\ ~inten
    /\ BitAnd(reqstatus, rren) # 0

\* the enabled indices that have reported in the current window
Reported == BitsOf(rren) \ BitsOf(reqstatus)

\* C12: on a watchdog armed with three handles and the default configuration,
\* awaiting_pets() returns true while only some of the handles 0, 1, 2 have
\* reported (0 and 1 but not 2, say) and false once all three have.
C12_AwaitingUntilAllReported ==
    (/\ ret.op = "awaiting_pets"
     /\ rren = RequestedMask(3)
     /\ crv = 32768
     /\ config = [sleep |-> "RUN", halt |-> "RUN"])
        => /\ Reported = {0, 1} => ret.val = TRUE
           /\ Reported = {0, 1, 2} => ret.val = FALSE
           /\ ret.val <=> Reported # BitsOf(rren)

\* C13: once a window has lapsed with an enabled index pending, the device
\* reset follows whatever the program does: no driver operation (pet, is_pet,
\* enable_interrupt, disable_interrupt, awaiting_pets, try_new, steal,
\* Config::try_new) withdraws the lapse or stops the watchdog, only the reset
\* ends it, and the reset does come; the interrupt enable decides only whether
\* the program is notified of the event.
C13_LapseThenReset ==
    /\ [][timeout => (ret'.op = "reset" \/ (timeout' /\ runstatus'))]_vars
    /\ [][ret'.op = "timeout" => (timeout' /\ ret'.irq = inten)]_vars
    /\ [](timeout => ENABLED TimeoutReset)
    /\ (timeout ~> (ret.op = "reset"))

\* after a lapse with the interrupt disabled, a pet has satisfied every
\* request, and the reset is still on its way
C13_Witness ==
    /\ timeout /\ ~inten
    /\ ret.op = "pet"
    /\ BitAnd(reqstatus, rren) = 0

\* C14: handles with distinct indices do not interfere.  pet() is one store to
\* RR[index] and is_pet() one load of REQSTATUS, so every interleaving of calls
\* is a sequence of them; two pets on distinct indices give the same pending
\* status in either order, and no pet() or is_pet() on index j changes what
\* is_pet() returns for an index i # j.
C14_DistinctHandlesIndependent ==
    [][/\ ret'.op = "is_pet" =>
              \A i \in 0..(MaxHandles - 1) : IsPet(i)' = IsPet(i)
       /\ ret'.op = "pet" =>
              \A j \in 0..(MaxHandles - 1) :
                  pet(j) => \A i \in (0..(MaxHandles - 1)) \ {j} :
                                /\ IsPet(i)' = IsPet(i)
                                /\ rr_write(reqstatus', i)
                                       = rr_write(rr_write(reqstatus, i), j)]_vars

\* with two handles in hand, one has reported and is_pet says so while the
\* other is still pending
C14_Witness ==
    /\ ret.op = "is_pet" /\ ret.val = TRUE
    /\ \E i, j \in handles : i # j /\ IsPet(i) /\ ~IsPet(j) /\ Bit(rren, j)

\* C15: on the arm path CONFIG, INTENSET, CRV and RREN are written before
\* TASKS_START, which is the last write: after no proper prefix of the writes
\* does the watchdog run, and in the first state in which it runs the recorded
\* (halt, sleep, crv, mask) is the requested (halt, sleep, max(timeout, 15),
\* (1<<N)-1) and the timeout interrupt is enabled.
C15_StartIsLast ==
    ~runstatus =>
        \A N \in 1..MaxHandles, c \in Configs :
            LET ws == ArmSequence(N, c) IN
            /\ ws[Len(ws)].reg = "TASKS_START"
            /\ \A k \in 0..Len(ws) :
                   LET s == ApplyWrites(Cur, SubSeq(ws, 1, k)) IN
                   /\ s.runstatus <=> k = Len(ws)
                   /\ s.runstatus =>
                          /\ <<s.config.halt, s.config.sleep, s.crv, s.rren>> = Requested(N, c)
                          /\ s.inten
            /\ TryNew(N, c).st.runstatus
            /\ TryNew(N, c).st.inten
            /\ <<TryNew(N, c).st.config.halt, TryNew(N, c).st.config.sleep,
                 TryNew(N, c).st.crv, TryNew(N, c).st.rren>> = Requested(N, c)

\* try_new has armed a stopped watchdog with three handles, a clamped timeout
\* and two different actions
C15_Witness ==
    /\ ret.op = "try_new" /\ ret.tag = "Ok" /\ ret.path = "arm"
    /\ inten
    /\ Recorded = <<"PAUSE", "RUN", 15, RequestedMask(3)>>

\* C16: pet() is idempotent within a window: a pet of a handle that has already
\* reported since the window began changes no register, and the state a pet
\* leaves is one that a further pet of the same handle would leave as it is.
C16_PetIdempotent ==
    [][ret'.op = "pet" =>
          \A i \in 0..(MaxHandles - 1) :
              pet(i) => /\ IsPet(i) => UNCHANGED hw
                        /\ IsPet(i)'
                        /\ rr_write(reqstatus', i) = reqstatus']_vars

\* a handle of a two-handle watchdog has been pet with both requests already
\* satisfied
C16_Witness ==
    /\ ret.op = "pet" /\ runstatus
    /\ rren = RequestedMask(2)
    /\ Reported = {0, 1}

\* C17: steal(index) accesses no register and checks nothing: it changes no
\* register and no value the program already holds, it succeeds for every
\* index in every state, and the handle it returns has the index asked for.  A
\* handle is its index and nothing else, so for an index below N it is the
\* handle try_new minted for that index: the same reload request register.
C17_StealTouchesNothing ==
    /\ [](\A index \in 0..MaxStealIndex : ENABLED steal(index))
    /\ [][ret'.op = "steal" =>
             /\ UNCHANGED <<hw, watchdog, timeout>>
             /\ handles' = handles \cup {ret'.index}
             /\ steal(ret'.index)]_vars

\* a handle has been stolen for an enabled index whose request is pending
C17_Witness ==
    /\ ret.op = "steal" /\ runstatus
    /\ Bit(rren, ret.index) /\ ~IsPet(ret.index)

\* the masks (1<<N)-1 of the handle counts N in 1..8
ArmedMasks == {RequestedMask(N) : N \in 1..8}

\* C18: whenever the watchdog runs, CRV is at least 15 and RREN is (1<<N)-1
\* for some N in 1..8; and while it runs no step but the device reset changes
\* CRV, CONFIG or RREN.
C18_ArmedTupleFixed ==
    [][/\ runstatus' =>
              /\ crv' >= 15
              /\ rren' \in ArmedMasks
       /\ (runstatus /\ ret'.op # "reset") => UNCHANGED <<crv, config, rren>>]_vars

\* a watchdog armed with eight handles and a clamped timeout has since been
\* attached to and had its interrupt disabled
C18_Witness ==
    /\ runstatus /\ crv = 15 /\ rren = RequestedMask(8)
    /\ ret.op = "disable_interrupt"

\* C19: the configuration reads back and attaches.  When try_new::<N> arms a
\* stopped watchdog with configuration c, Config::try_new then returns Some of
\* (max(c.timeout_ticks, 15), c's sleep action, c's halt action); and whenever
\* the watchdog runs, try_new::<N> with the configuration Config::try_new
\* returns and the N it was armed with succeeds.
C19_ReadBackAttaches ==
    /\ [][(ret'.op = "try_new" /\ ~runstatus /\ runstatus') =>
             \A N \in 1..MaxHandles, c \in Configs :
                 try_new(N, c) =>
                     /\ ConfigRead' =
                            [tag |-> "Some",
                             config |-> [timeout_ticks |-> RequestedCrv(c),
                                         action_during_sleep |-> c.action_during_sleep,
                                         action_during_debug_halt |-> c.action_during_debug_halt]]
                     /\ rren' = RequestedMask(N)]_vars
    /\ [](runstatus =>
             /\ ConfigRead.tag = "Some"
             /\ \A N \in 1..MaxHandles :
                    rren = RequestedMask(N) => TryNew(N, ConfigRead.config).ret.tag = "Ok")

\* try_new has attached five handles to a watchdog whose timeout of 15 ticks
\* is one that only a read-back or the clamp can yield
C19_Witness ==
    /\ ret.op = "try_new" /\ ret.tag = "Ok" /\ ret.path = "attach"
    /\ ConfigRead.tag = "Some"
    /\ ConfigRead.config.timeout_ticks = 15
    /\ ConfigRead.config.action_during_sleep = "PAUSE"
    /\ Len(ret.handles) = 5

\* C20: the timeout interrupt enable is neither compared nor restored by an
\* attach: try_new on a running watchdog with the recorded (halt, sleep,
\* timeout, N) succeeds whether the interrupt is enabled or not and leaves the
\* enable as it found it, disabled after a disable_interrupt(); try_new on a
\* stopped watchdog always leaves it enabled.
C20_AttachKeepsInterruptEnable ==
    \A N \in 1..MaxHandles, c \in Configs :
        LET out == TryNew(N, c) IN
        /\ (runstatus /\ Requested(N, c) = Recorded)
               => /\ out.ret.tag = "Ok"
                  /\ out.ret.path = "attach"
                  /\ out.st.inten = inten
        /\ ~runstatus
               => /\ out.ret.path = "arm"
                  /\ out.st.inten = TRUE

\* after a disable_interrupt, try_new has attached four handles and the
\* interrupt is still disabled
C20_Witness ==
    /\ ret.op = "try_new" /\ ret.tag = "Ok" /\ ret.path = "attach"
    /\ Len(ret.handles) = 4
    /\ runstatus /\ ~inten /\ ~timeout

====
